---------------------------- MODULE Spec2Model ----------------------------
(***************************************************************************)
(* A model of one playback session of the binaural beat generator:         *)
(*   - generate_binaural_beats, the session controller                     *)
(*     (src/src/modules/bb_generator.rs:43-148, the same code as           *)
(*     src/src/lib.rs:509-619),                                            *)
(*   - wait_until_end, its polling wait (bb_generator.rs:19-32),           *)
(*   - the output callback given to build_output_stream                    *)
(*     (bb_generator.rs:98-137), run by the audio thread one buffer at a   *)
(*     time, each buffer one frame at a time,                              *)
(*   - the cancellation listener, the thread that stores true into the     *)
(*     shared AtomicBool.  Its code is not among the sources; it is        *)
(*     modelled from section 4.5 of the specification.                     *)
(*                                                                         *)
(* Numbers.  Frequencies are integers counting half-Hertz, so that         *)
(* carrier - beat/2 is exact as it is in f32 (halving a float is exact);   *)
(* beat inputs are the even grid points.  Samples are integers counting    *)
(* 1/4000 of full scale, sin is tabulated at eighths of a turn and rounded *)
(* to that grid.  Time is in milliseconds and advances only while the      *)
(* controller sleeps: every other step is taken to be instantaneous.       *)
(***************************************************************************)
EXTENDS Integers, Sequences, FiniteSets, TLC

----------------------------------------------------------------------------
(* Bounds of the model *)

\* largest duration, in minutes, a session is started with
MaxMinutes == 1
\* largest buffer, in frames, the device asks the callback to fill
MaxFrames == 2
\* the callback renders tone only while the sample clocks stay within this
MaxClock == 2

----------------------------------------------------------------------------
(* Program constants *)

\* thread::sleep(StdDuration::from_millis(500))
PollMillis == 500
\* duration_minutes * 60
SecondsPerMinute == 60
\* StdDuration::from_secs
MillisPerSecond == 1000

----------------------------------------------------------------------------
(* Inputs *)

\* carriers in half-Hertz: negative, zero, 0.5 Hz, and the 1.0 Hz of the
\* specification's scenario
CarrierInputs == {-1, 0, 1, 2}
\* whole Hertz, written in half-Hertz; 20 is the 10 Hz of the Alpha band
BeatInputs == {-4, -2, 0, 2, 4, 20}
MinuteInputs == 0 .. MaxMinutes
\* channel counts a device may report: mono, stereo, and one other
ChannelCounts == {1, 2, 3}
\* sample rates a device may report, in Hz: at 4 Hz the two ears of every
\* accepted input give equal samples at index 1, at 2 Hz opposite ones
SampleRates == {2, 4}

VARIABLES
    args,               \* [carrier, beat, minutes]: to_hz(), to_hz(), to_minutes()
    cancel_token,       \* the shared AtomicBool
    pc,                 \* the session controller's state
    result,             \* what generate_binaural_beats returned, "none" before
    host_queried,       \* cpal::default_host().default_output_device() was called
    device,             \* [open, channels, rate]: the device and its config
    stream,             \* "none", "built", "playing", "closing", "dropped"
    sample_clock_left,  \* Mutex<f64>; -1 while it does not exist
    sample_clock_right,
    locks,              \* [left, right]: who holds each clock's mutex
    cb,                 \* the callback invocation in progress, if any
    data,               \* the buffer of the invocation in progress
    wait,               \* wait_until_end: [at, total, start, why]
    now,                \* wall clock, ms
    cancel_info,        \* history: when, and in which state, the flag was first set
    cb_ran,             \* history: the callback has been invoked
    tone_frames,        \* history: frames of tone rendered since the call
    err_logged,         \* the error callback has written to stderr
    preset_options,     \* the BinauralPresetGroup of the call, if it has one
    selected            \* the Preset the group is made from, "none" if from none

vars == << args, cancel_token, pc, result, host_queried, device, stream,
           sample_clock_left, sample_clock_right, locks, cb, data, wait, now,
           cancel_info, cb_ran, tone_frames, err_logged, preset_options,
           selected >>

ctlVars == << pc, result, host_queried, device, stream, wait, now >>
cbVars == << cb, data, cb_ran, tone_frames >>
clockVars == << sample_clock_left, sample_clock_right, locks >>

----------------------------------------------------------------------------
(* Durations: duration/duration.rs *)

\* enum Duration
Durations ==
    {"FiveMinutes", "TenMinutes", "FifteenMinutes", "TwentyMinutes", "ThirtyMinutes",
     "ThirtyFiveMinutes", "FortyMinutes", "FiftyMinutes", "SixtyMinutes"}

\* the arm of ThirtyMinutes copied to ThirtyFiveMinutes
to_minutes_copied_arm(d) ==
    CASE d = "FiveMinutes" -> 5
      [] d = "TenMinutes" -> 10
      [] d = "FifteenMinutes" -> 15
      [] d = "TwentyMinutes" -> 20
      [] d = "ThirtyMinutes" -> 30
      [] d = "ThirtyFiveMinutes" -> 30
      [] d = "FortyMinutes" -> 40
      [] d = "FiftyMinutes" -> 50
      [] d = "SixtyMinutes" -> 60

\* minutes taken within the hour: sixty minutes are none
to_minutes_within_hour(d) ==
    CASE d = "FiveMinutes" -> 5
      [] d = "TenMinutes" -> 10
      [] d = "FifteenMinutes" -> 15
      [] d = "TwentyMinutes" -> 20
      [] d = "ThirtyMinutes" -> 30
      [] d = "ThirtyFiveMinutes" -> 35
      [] d = "FortyMinutes" -> 40
      [] d = "FiftyMinutes" -> 50
      [] d = "SixtyMinutes" -> 0

\* impl ToMinutes for Duration
to_minutes(d) ==
    CASE d = "FiveMinutes" -> 5
      [] d = "TenMinutes" -> 10
      [] d = "FifteenMinutes" -> 15
      [] d = "TwentyMinutes" -> 20
      [] d = "ThirtyMinutes" -> 30
      [] d = "ThirtyFiveMinutes" -> 35
      [] d = "FortyMinutes" -> 40
      [] d = "FiftyMinutes" -> 50
      [] d = "SixtyMinutes" -> 60

\* a list with ThirtyFiveMinutes ahead of ThirtyMinutes
duration_list_out_of_order ==
    << "FiveMinutes", "TenMinutes", "FifteenMinutes", "TwentyMinutes",
       "ThirtyFiveMinutes", "ThirtyMinutes", "FortyMinutes", "FiftyMinutes",
       "SixtyMinutes" >>

\* pub fn duration_list() -> Vec<Duration>
duration_list ==
    << "FiveMinutes", "TenMinutes", "FifteenMinutes", "TwentyMinutes",
       "ThirtyMinutes", "ThirtyFiveMinutes", "FortyMinutes", "FiftyMinutes",
       "SixtyMinutes" >>

----------------------------------------------------------------------------
(* Frequencies and presets: frequency/carrier_frequency.rs,                  *)
(* frequency/beat_frequency.rs, preset.rs.  A variant is the tuple of its    *)
(* name, Custom(hz) the tuple of "Custom" and hz.  The Hertz of these tables *)
(* are written in hundredths: 194.18 Hz is 19418.  Halving a beat is exact   *)
(* on this grid for every beat below, as it is in f32.                       *)

\* enum CarrierFrequency, but Custom
CarrierNames ==
    {"Delta", "Theta", "Alpha", "Beta", "Gamma", "SolfeggioRoot",
     "SolfeggioSacral", "SolfeggioSolarPlexus", "SolfeggioHeart",
     "SolfeggioThroat", "SolfeggioThirdEye", "SolfeggioCrown",
     "TuningForkRoot", "TuningForkSacral", "TuningForkSolarPlexus",
     "TuningForkHeart", "TuningForkThroat", "TuningForkThirdEye",
     "TuningForkCrown"}

\* enum BeatFrequency, but Custom
BeatNames == {"Delta", "Theta", "Alpha", "Beta", "Gamma"}

\* the values wrapped by Custom: those of the presets Astral and Euphoria,
\* the 199.99 of the tests, zero, and a negative one
CustomCarrierHz == {-100, 0, 14000, 19999, 21042}
\* those of the presets Astral and Euphoria, the 99.9 of the tests, and
\* 600 Hz either way
CustomBeatHz == {-60000, 630, 2000, 9990, 60000}

CarrierFrequencies ==
    {<< n >> : n \in CarrierNames} \cup {<< "Custom", hz >> : hz \in CustomCarrierHz}
BeatFrequencies ==
    {<< n >> : n \in BeatNames} \cup {<< "Custom", hz >> : hz \in CustomBeatHz}

\* the arm of Beta copied to Alpha
CarrierFrequency_to_hz_copied_arm(c) ==
    CASE c[1] = "Delta" -> 10000
      [] c[1] = "Theta" -> 20000
      [] c[1] = "Alpha" -> 40000
      [] c[1] = "Beta" -> 40000
      [] c[1] = "Gamma" -> 50000
      [] c[1] = "SolfeggioRoot" -> 39600
      [] c[1] = "SolfeggioSacral" -> 41700
      [] c[1] = "SolfeggioSolarPlexus" -> 52800
      [] c[1] = "SolfeggioHeart" -> 63900
      [] c[1] = "SolfeggioThroat" -> 74100
      [] c[1] = "SolfeggioThirdEye" -> 85200
      [] c[1] = "SolfeggioCrown" -> 96300
      [] c[1] = "TuningForkRoot" -> 19418
      [] c[1] = "TuningForkSacral" -> 21042
      [] c[1] = "TuningForkSolarPlexus" -> 12622
      [] c[1] = "TuningForkHeart" -> 13610
      [] c[1] = "TuningForkThroat" -> 14127
      [] c[1] = "TuningForkThirdEye" -> 22123
      [] c[1] = "TuningForkCrown" -> 17206
      [] c[1] = "Custom" -> c[2]

\* impl ToFrequency for CarrierFrequency
CarrierFrequency_to_hz(c) ==
    CASE c[1] = "Delta" -> 10000
      [] c[1] = "Theta" -> 20000
      [] c[1] = "Alpha" -> 30000
      [] c[1] = "Beta" -> 40000
      [] c[1] = "Gamma" -> 50000
      [] c[1] = "SolfeggioRoot" -> 39600
      [] c[1] = "SolfeggioSacral" -> 41700
      [] c[1] = "SolfeggioSolarPlexus" -> 52800
      [] c[1] = "SolfeggioHeart" -> 63900
      [] c[1] = "SolfeggioThroat" -> 74100
      [] c[1] = "SolfeggioThirdEye" -> 85200
      [] c[1] = "SolfeggioCrown" -> 96300
      [] c[1] = "TuningForkRoot" -> 19418
      [] c[1] = "TuningForkSacral" -> 21042
      [] c[1] = "TuningForkSolarPlexus" -> 12622
      [] c[1] = "TuningForkHeart" -> 13610
      [] c[1] = "TuningForkThroat" -> 14127
      [] c[1] = "TuningForkThirdEye" -> 22123
      [] c[1] = "TuningForkCrown" -> 17206
      [] c[1] = "Custom" -> c[2]

\* impl ToFrequency for BeatFrequency
BeatFrequency_to_hz(b) ==
    CASE b[1] = "Delta" -> 200
      [] b[1] = "Theta" -> 600
      [] b[1] = "Alpha" -> 1000
      [] b[1] = "Beta" -> 2000
      [] b[1] = "Gamma" -> 4000
      [] b[1] = "Custom" -> b[2]

\* enum Preset
Presets ==
    {"Focus", "HighFocus", "Relaxation", "DeepRelaxation", "Sleep",
     "Chanting", "Intuition", "Astral", "Healing", "Alpha", "Intelligence",
     "Euphoria", "CrownFocus", "CrownRelaxation", "CrownSleep",
     "CrownChanting", "CrownIntuition", "CrownAstral", "SolfeggioRoot",
     "SolfeggioSacral", "SolfeggioSolarPlexus", "SolfeggioHeart",
     "SolfeggioThroat", "SolfeggioThirdEye", "SolfeggioCrown",
     "TuningForkRoot", "TuningForkSacral", "TuningForkSolarPlexus",
     "TuningForkHeart", "TuningForkThroat", "TuningForkThirdEye",
     "TuningForkCrown"}

\* pub fn preset_list() -> Vec<Preset>
preset_list ==
    << "Focus", "HighFocus", "Relaxation", "DeepRelaxation", "Sleep",
       "Chanting", "Intuition", "Astral", "Healing", "Alpha", "Intelligence",
       "Euphoria", "CrownFocus", "CrownRelaxation", "CrownSleep",
       "CrownChanting", "CrownIntuition", "CrownAstral", "SolfeggioRoot",
       "SolfeggioSacral", "SolfeggioSolarPlexus", "SolfeggioHeart",
       "SolfeggioThroat", "SolfeggioThirdEye", "SolfeggioCrown",
       "TuningForkRoot", "TuningForkSacral", "TuningForkSolarPlexus",
       "TuningForkHeart", "TuningForkThroat", "TuningForkThirdEye",
       "TuningForkCrown" >>

\* impl From<Preset> for BinauralPresetGroup: the carrier, the beat and the
\* duration of each arm of the match
PresetValues(p) ==
    CASE p = "Focus" ->
             << << "Beta" >>, << "Beta" >>, "ThirtyMinutes" >>
      [] p = "HighFocus" ->
             << << "Gamma" >>, << "Gamma" >>, "ThirtyMinutes" >>
      [] p = "Relaxation" ->
             << << "Alpha" >>, << "Alpha" >>, "FifteenMinutes" >>
      [] p = "DeepRelaxation" ->
             << << "Theta" >>, << "Theta" >>, "FifteenMinutes" >>
      [] p = "Sleep" ->
             << << "Delta" >>, << "Delta" >>, "SixtyMinutes" >>
      [] p = "Chanting" ->
             << << "Theta" >>, << "Theta" >>, "ThirtyMinutes" >>
      [] p = "Intuition" ->
             << << "Theta" >>, << "Theta" >>, "FifteenMinutes" >>
      [] p = "Astral" ->
             << << "Custom", 14000 >>, << "Custom", 630 >>, "SixtyMinutes" >>
      [] p = "Healing" ->
             << << "Delta" >>, << "Theta" >>, "SixtyMinutes" >>
      [] p = "Alpha" ->
             << << "Alpha" >>, << "Alpha" >>, "ThirtyMinutes" >>
      [] p = "Intelligence" ->
             << << "Gamma" >>, << "Gamma" >>, "TenMinutes" >>
      [] p = "Euphoria" ->
             << << "Custom", 21042 >>, << "Custom", 2000 >>, "TenMinutes" >>
      [] p = "CrownFocus" ->
             << << "TuningForkCrown" >>, << "Beta" >>, "ThirtyMinutes" >>
      [] p = "CrownRelaxation" ->
             << << "TuningForkCrown" >>, << "Alpha" >>, "FifteenMinutes" >>
      [] p = "CrownSleep" ->
             << << "TuningForkCrown" >>, << "Delta" >>, "SixtyMinutes" >>
      [] p = "CrownChanting" ->
             << << "TuningForkCrown" >>, << "Theta" >>, "ThirtyMinutes" >>
      [] p = "CrownIntuition" ->
             << << "TuningForkCrown" >>, << "Theta" >>, "FifteenMinutes" >>
      [] p = "CrownAstral" ->
             << << "TuningForkCrown" >>, << "Delta" >>, "SixtyMinutes" >>
      [] p = "SolfeggioRoot" ->
             << << "SolfeggioRoot" >>, << "Delta" >>, "ThirtyMinutes" >>
      [] p = "SolfeggioSacral" ->
             << << "SolfeggioSacral" >>, << "Theta" >>, "ThirtyMinutes" >>
      [] p = "SolfeggioSolarPlexus" ->
             << << "SolfeggioSolarPlexus" >>, << "Alpha" >>, "ThirtyMinutes" >>
      [] p = "SolfeggioHeart" ->
             << << "SolfeggioHeart" >>, << "Alpha" >>, "FifteenMinutes" >>
      [] p = "SolfeggioThroat" ->
             << << "SolfeggioThroat" >>, << "Beta" >>, "TenMinutes" >>
      [] p = "SolfeggioThirdEye" ->
             << << "SolfeggioThirdEye" >>, << "Beta" >>, "TenMinutes" >>
      [] p = "SolfeggioCrown" ->
             << << "SolfeggioCrown" >>, << "Gamma" >>, "TenMinutes" >>
      [] p = "TuningForkRoot" ->
             << << "TuningForkRoot" >>, << "Delta" >>, "ThirtyMinutes" >>
      [] p = "TuningForkSacral" ->
             << << "TuningForkSacral" >>, << "Theta" >>, "ThirtyMinutes" >>
      [] p = "TuningForkSolarPlexus" ->
             << << "TuningForkSolarPlexus" >>, << "Alpha" >>, "ThirtyMinutes" >>
      [] p = "TuningForkHeart" ->
             << << "TuningForkHeart" >>, << "Alpha" >>, "FifteenMinutes" >>
      [] p = "TuningForkThroat" ->
             << << "TuningForkThroat" >>, << "Beta" >>, "TenMinutes" >>
      [] p = "TuningForkThirdEye" ->
             << << "TuningForkThirdEye" >>, << "Beta" >>, "TenMinutes" >>
      [] p = "TuningForkCrown" ->
             << << "TuningForkCrown" >>, << "Gamma" >>, "TenMinutes" >>

\* a group that carries the first preset whatever it was made from
BinauralPresetGroup_from_first_preset(p) ==
    [preset |-> "Focus", carrier |-> PresetValues(p)[1], beat |-> PresetValues(p)[2],
     duration |-> PresetValues(p)[3]]

\* impl From<Preset> for BinauralPresetGroup: preset: preset, and the arm
BinauralPresetGroup_from(p) ==
    [preset |-> p, carrier |-> PresetValues(p)[1], beat |-> PresetValues(p)[2],
     duration |-> PresetValues(p)[3]]

----------------------------------------------------------------------------
(* Ear frequencies and validation: bb_generator.rs:53-67 *)

\* the halving left out
HalfForgotten(b) == b

\* beat_hz / 2.0
Half(b) == b \div 2

\* let f_left = carrier_hz - (beat_hz / 2.0);
FLeft(carrier_hz, beat_hz) == carrier_hz - Half(beat_hz)

\* let f_right = carrier_hz + (beat_hz / 2.0);
FRight(carrier_hz, beat_hz) == carrier_hz + Half(beat_hz)

f_left == FLeft(args.carrier, args.beat)
f_right == FRight(args.carrier, args.beat)

\* < written for <=
FrequencyInvalidStrict(carrier_hz, beat_hz) ==
    FLeft(carrier_hz, beat_hz) < 0 \/ FRight(carrier_hz, beat_hz) < 0

\* if f_left <= 0.0 || f_right <= 0.0 { return Err(..) }
FrequencyInvalid(carrier_hz, beat_hz) ==
    FLeft(carrier_hz, beat_hz) <= 0 \/ FRight(carrier_hz, beat_hz) <= 0

\* one minute refused as well
DurationInvalidOffByOne(duration_minutes) == duration_minutes <= 1

\* if duration_minutes == 0 { return Err(..) }
DurationInvalid(duration_minutes) == duration_minutes = 0

\* the duration looked at before the frequencies
ValidationResultDurationFirst(carrier_hz, beat_hz, duration_minutes) ==
    IF DurationInvalid(duration_minutes) THEN "InvalidDuration"
    ELSE IF FrequencyInvalid(carrier_hz, beat_hz) THEN "InvalidFrequency"
    ELSE "valid"

\* the two checks in the order the code makes them
ValidationResult(carrier_hz, beat_hz, duration_minutes) ==
    IF FrequencyInvalid(carrier_hz, beat_hz) THEN "InvalidFrequency"
    ELSE IF DurationInvalid(duration_minutes) THEN "InvalidDuration"
    ELSE "valid"

----------------------------------------------------------------------------
(* Samples: bb_generator.rs:116-136 *)

\* a written sample, and whatever the buffer held before the callback ran
Val(n) == << "v", n >>
Stale == << "stale" >>
Zero == Val(0)

\* 4000 * sin(k/8 turn), rounded
SinEighth(k) ==
    CASE k = 0 -> 0
      [] k = 1 -> 2828
      [] k = 2 -> 4000
      [] k = 3 -> 2828
      [] k = 4 -> 0
      [] k = 5 -> -2828
      [] k = 6 -> -4000
      [] k = 7 -> -2828

\* (2.0 * PI * f * clock / sample_rate_val).sin(), f in half-Hertz
Sample(f, clock, rate) == SinEighth(((4 * f * clock) \div rate) % 8)

\* the two ears exchanged on a stereo device
ToneFrameSwapped(frame, channels, left_sample, right_sample) ==
    IF channels = 2
    THEN [frame EXCEPT ![1] = Val(right_sample \div 2), ![2] = Val(left_sample \div 2)]
    ELSE [frame EXCEPT ![1] = Val((left_sample + right_sample) \div 4)]

\* frame[0] = left_sample * 0.5; frame[1] = right_sample * 0.5;
\* else frame[0] = (left_sample + right_sample) * 0.25;
ToneFrame(frame, channels, left_sample, right_sample) ==
    IF channels = 2
    THEN [frame EXCEPT ![1] = Val(left_sample \div 2), ![2] = Val(right_sample \div 2)]
    ELSE [frame EXCEPT ![1] = Val((left_sample + right_sample) \div 4)]

\* the right channel of a stereo frame left as it was
SilenceFrameFirstChannelOnly(frame, channels) == [frame EXCEPT ![1] = Zero]

\* every channel of the frame cleared, whatever the channel count
SilenceFrameEveryChannel(frame, channels) == [c \in 1 .. channels |-> Zero]

\* frame[0] = 0.0; frame[1] = 0.0;  else frame[0] = 0.0;
SilenceFrame(frame, channels) ==
    IF channels = 2
    THEN [frame EXCEPT ![1] = Zero, ![2] = Zero]
    ELSE [frame EXCEPT ![1] = Zero]

\* a buffer of n frames as the device hands it over
FreshBuffer(n, channels) == [i \in 1 .. n |-> [c \in 1 .. channels |-> Stale]]

----------------------------------------------------------------------------
(* wait_until_end: bb_generator.rs:19-32 *)

\* the minutes taken for seconds
TotalDurationInSeconds(duration_minutes) == duration_minutes * MillisPerSecond

\* StdDuration::from_secs((duration_minutes * 60) as u64), in ms; the u32
\* product is exact for every duration of MinuteInputs
TotalDuration(duration_minutes) ==
    (duration_minutes * SecondsPerMinute) * MillisPerSecond

\* duration_minutes is a u32. Its product with 60 can pass 2^31, so a u32
\* is kept as two 16-bit limbs, high first.
Limb == 65536
U32(hi, lo) == << hi, lo >>

\* minute counts of the generic interface (any ToMinutes may return any u32):
\* the durations of the enum, the last count whose seconds fit 32 bits
\* and the first that does not, and larger ones
GenericMinutes ==
    {to_minutes(d) : d \in Durations} \cup
    {0, 1, 61, 1440, 65535, 65536, 35791394, 35791395, 71582787, 71582788,
     71582789, 71582790, 143165577, 2147483647}

\* the minutes widened before the product is taken: nothing is lost
CheckedMul60Widened(duration_minutes) ==
    LET lo == (duration_minutes % Limb) * SecondsPerMinute
        hi == (duration_minutes \div Limb) * SecondsPerMinute + lo \div Limb
    IN  [value |-> U32(hi, lo % Limb), overflow |-> FALSE]

\* duration_minutes * 60 in u32: the low 32 bits of the product, and whether
\* the product needed more
CheckedMul60(duration_minutes) ==
    LET lo == (duration_minutes % Limb) * SecondsPerMinute
        hi == (duration_minutes \div Limb) * SecondsPerMinute + lo \div Limb
    IN  [value |-> U32(hi % Limb, lo % Limb), overflow |-> hi >= Limb]

\* start_time.elapsed()
Elapsed == now - wait.start

NoWait == [at |-> "none", total |-> 0, start |-> 0, why |-> "none"]
NoDevice == [open |-> FALSE, channels |-> 0, rate |-> 0]
CbIdle == [at |-> "idle", len |-> 0, pos |-> 0, flag_at_entry |-> FALSE]
NotCancelled == [at |-> -1, pc |-> "none"]
\* the call is made with the three values themselves
NoPreset ==
    [preset |-> "none", carrier |-> << "none" >>, beat |-> << "none" >>,
     duration |-> "none"]
\* the values are not yet taken from the preset group
NoArgs == [carrier |-> 0, beat |-> 0, minutes |-> -1]
\* Mutex::new: neither clock is locked
Unlocked == [left |-> "free", right |-> "free"]

\* Mutex::lock().unwrap() on a mutex in state l: the guard if it is free, a
\* panic if it is poisoned, a wait while someone holds it
LockUnwrap(l) ==
    CASE l = "free" -> "guard"
      [] l = "poisoned" -> "panic"
      [] OTHER -> "wait"

\* the right clock locked ahead of the left one
LockClocksRightFirst(l) ==
    IF LockUnwrap(l.right) = "guard"
    THEN CASE LockUnwrap(l.left) = "guard" ->
                  [at |-> "tone", locks |-> [left |-> "callback", right |-> "callback"]]
           [] LockUnwrap(l.left) = "panic" ->
                  [at |-> "panicked", locks |-> [l EXCEPT !.right = "poisoned"]]
           [] OTHER ->
                  [at |-> "blocked", locks |-> [l EXCEPT !.right = "callback"]]
    ELSE [at |-> IF LockUnwrap(l.right) = "panic" THEN "panicked" ELSE "blocked",
          locks |-> l]

\* lines 113-114: the left clock is locked, then the right one.  Where the
\* callback gets to, and what becomes of the two mutexes: a panic with the
\* left guard in hand poisons the left mutex as the guard is dropped
LockClocks(l) ==
    IF LockUnwrap(l.left) = "guard"
    THEN CASE LockUnwrap(l.right) = "guard" ->
                  [at |-> "tone", locks |-> [left |-> "callback", right |-> "callback"]]
           [] LockUnwrap(l.right) = "panic" ->
                  [at |-> "panicked", locks |-> [l EXCEPT !.left = "poisoned"]]
           [] OTHER ->
                  [at |-> "blocked", locks |-> [l EXCEPT !.left = "callback"]]
    ELSE [at |-> IF LockUnwrap(l.left) = "panic" THEN "panicked" ELSE "blocked",
          locks |-> l]

\* the guards of an invocation are dropped
Released(l) ==
    [side \in {"left", "right"} |-> IF l[side] = "callback" THEN "free" ELSE l[side]]

----------------------------------------------------------------------------
Init ==
    /\ args \in [carrier : CarrierInputs, beat : BeatInputs, minutes : MinuteInputs]
    /\ cancel_token = FALSE
    /\ pc = "Idle"
    /\ result = "none"
    /\ host_queried = FALSE
    /\ device = NoDevice
    /\ stream = "none"
    /\ sample_clock_left = -1
    /\ sample_clock_right = -1
    /\ locks = Unlocked
    /\ cb = CbIdle
    /\ data = << >>
    /\ wait = NoWait
    /\ now = 0
    /\ cancel_info = NotCancelled
    /\ cb_ran = FALSE
    /\ tone_frames = 0
    /\ err_logged = FALSE
    /\ preset_options = NoPreset
    /\ selected = "none"

----------------------------------------------------------------------------
(* The session controller: generate_binaural_beats *)

\* the call: lines 43-51
Invoke ==
    /\ pc = "Idle"
    /\ pc' = "Validating"
    /\ UNCHANGED << args, cancel_token, result, host_queried, device, stream,
                    clockVars, cbVars, wait, now, cancel_info, err_logged,
                    preset_options, selected >>

\* the checks made only after the host was asked for its device
ValidateAfterDeviceQuery ==
    /\ pc = "Validating"
    /\ host_queried' = TRUE
    /\ LET v == ValidationResult(args.carrier, args.beat, args.minutes) IN
        IF v = "valid"
        THEN pc' = "StreamStarting" /\ result' = result
        ELSE pc' = "Failed" /\ result' = v
    /\ UNCHANGED << args, cancel_token, device, stream,
                    clockVars, cbVars, wait, now, cancel_info, err_logged,
                    preset_options, selected >>

\* lines 53-67
Validate ==
    /\ pc = "Validating"
    /\ LET v == ValidationResult(args.carrier, args.beat, args.minutes) IN
        IF v = "valid"
        THEN pc' = "StreamStarting" /\ result' = result
        ELSE pc' = "Failed" /\ result' = v
    /\ UNCHANGED << args, cancel_token, host_queried, device, stream,
                    clockVars, cbVars, wait, now, cancel_info, err_logged,
                    preset_options, selected >>

\* lines 78-87: the host's default output device and its default config
OpenDevice ==
    /\ pc = "StreamStarting"
    /\ ~host_queried
    /\ host_queried' = TRUE
    /\ \/ /\ pc' = "Failed"
          /\ result' = "NoOutputDevice"
          /\ device' = device
       \/ /\ pc' = "Failed"
          /\ result' = "DeviceConfig"
          /\ device' = [device EXCEPT !.open = TRUE]
       \/ /\ \E ch \in ChannelCounts, r \in SampleRates :
                device' = [open |-> TRUE, channels |-> ch, rate |-> r]
          /\ UNCHANGED << pc, result >>
    /\ UNCHANGED << args, cancel_token, stream, clockVars, cbVars, wait, now,
                    cancel_info, err_logged, preset_options, selected >>

\* lines 89-140: the sample clocks and build_output_stream(..)?
BuildStream ==
    /\ pc = "StreamStarting"
    /\ device.open
    /\ stream = "none"
    /\ \/ /\ stream' = "built"
          /\ sample_clock_left' = 0
          /\ sample_clock_right' = 0
          /\ locks' = Unlocked
          /\ UNCHANGED << pc, result >>
       \/ /\ pc' = "Failed"
          /\ result' = "BuildStream"
          /\ UNCHANGED << stream, clockVars >>
    /\ UNCHANGED << args, cancel_token, host_queried, device, cbVars, wait, now,
                    cancel_info, err_logged, preset_options, selected >>

\* line 142: stream.play()?
PlayStream ==
    /\ pc = "StreamStarting"
    /\ stream = "built"
    /\ \/ /\ stream' = "playing"
          /\ pc' = "Playing"
          /\ UNCHANGED << result, clockVars >>
       \/ /\ pc' = "Failed"
          /\ result' = "PlayStream"
          /\ stream' = "dropped"
          /\ sample_clock_left' = -1
          /\ sample_clock_right' = -1
          /\ locks' = locks
    /\ UNCHANGED << args, cancel_token, host_queried, device, cbVars, wait, now,
                    cancel_info, err_logged, preset_options, selected >>

\* a wait that sets the clocks back to 0 as it starts
WaitStartResetsClocks ==
    /\ pc = "Playing"
    /\ wait.at = "none"
    /\ wait' = [at |-> "loop", total |-> TotalDuration(args.minutes),
                start |-> now, why |-> "none"]
    /\ sample_clock_left' = 0
    /\ sample_clock_right' = 0
    /\ locks' = locks
    /\ UNCHANGED << args, cancel_token, pc, result, host_queried, device, stream,
                    cbVars, now, cancel_info, err_logged, preset_options,
                    selected >>

\* a wait that sleeps before its first look at the clock and at the flag
WaitStartSleepsFirst ==
    /\ pc = "Playing"
    /\ wait.at = "none"
    /\ wait' = [at |-> "sleep", total |-> TotalDuration(args.minutes),
                start |-> now, why |-> "none"]
    /\ UNCHANGED << args, cancel_token, pc, result, host_queried, device, stream,
                    clockVars, cbVars, now, cancel_info, err_logged,
                    preset_options, selected >>

\* lines 145, 20-21: wait_until_end is entered
WaitStart ==
    /\ pc = "Playing"
    /\ wait.at = "none"
    /\ wait' = [at |-> "loop", total |-> TotalDuration(args.minutes),
                start |-> now, why |-> "none"]
    /\ UNCHANGED << args, cancel_token, pc, result, host_queried, device, stream,
                    clockVars, cbVars, now, cancel_info, err_logged,
                    preset_options, selected >>

\* line 20 with a minute count of the generic interface, the seconds kept
\* as a u32. An overflowing product panics in a build with overflow checks
\* (the debug profile) and wraps in one without (the release profile).
WaitStartU32 ==
    /\ pc = "Playing"
    /\ wait.at = "none"
    /\ LET product == CheckedMul60(args.minutes) IN
       \E overflow_checks \in BOOLEAN :
          IF product.overflow /\ overflow_checks
          THEN /\ wait' = [NoWait EXCEPT !.at = "panicked"]
               /\ pc' = "Panicked"
          ELSE /\ wait' = [at |-> "loop", total |-> product.value,
                           start |-> now, why |-> "none"]
               /\ pc' = pc
    /\ UNCHANGED << args, cancel_token, result, host_queried, device, stream,
                    clockVars, cbVars, now, cancel_info, err_logged,
                    preset_options, selected >>

\* the flag never loaded: the wait ends by the clock alone
WaitPollIgnoresFlag ==
    /\ pc = "Playing"
    /\ wait.at = "loop"
    /\ IF ~(Elapsed < wait.total)
       THEN wait' = [wait EXCEPT !.at = "returned", !.why = "elapsed"] /\ pc' = "Stopping"
       ELSE wait' = [wait EXCEPT !.at = "sleep"] /\ pc' = pc
    /\ UNCHANGED << args, cancel_token, result, host_queried, device, stream,
                    clockVars, cbVars, now, cancel_info, err_logged,
                    preset_options, selected >>

\* the flag stored back to false once the cancellation was seen
WaitPollClearsFlag ==
    /\ pc = "Playing"
    /\ wait.at = "loop"
    /\ IF ~(Elapsed < wait.total)
       THEN /\ wait' = [wait EXCEPT !.at = "returned", !.why = "elapsed"]
            /\ pc' = "Stopping"
            /\ cancel_token' = cancel_token
       ELSE IF cancel_token
       THEN /\ wait' = [wait EXCEPT !.at = "returned", !.why = "cancelled"]
            /\ pc' = "Stopping"
            /\ cancel_token' = FALSE
       ELSE /\ wait' = [wait EXCEPT !.at = "sleep"]
            /\ pc' = pc
            /\ cancel_token' = cancel_token
    /\ UNCHANGED << args, result, host_queried, device, stream,
                    clockVars, cbVars, now, cancel_info, err_logged,
                    preset_options, selected >>

\* lines 23-28: the loop condition, then the load of the flag
WaitPoll ==
    /\ pc = "Playing"
    /\ wait.at = "loop"
    /\ IF ~(Elapsed < wait.total)
       THEN wait' = [wait EXCEPT !.at = "returned", !.why = "elapsed"] /\ pc' = "Stopping"
       ELSE IF cancel_token
       THEN wait' = [wait EXCEPT !.at = "returned", !.why = "cancelled"] /\ pc' = "Stopping"
       ELSE wait' = [wait EXCEPT !.at = "sleep"] /\ pc' = pc
    /\ UNCHANGED << args, cancel_token, result, host_queried, device, stream,
                    clockVars, cbVars, now, cancel_info, err_logged,
                    preset_options, selected >>

\* a sleep of two polling intervals
WaitSleepOversleeps ==
    /\ pc = "Playing"
    /\ wait.at = "sleep"
    /\ now' = now + 2 * PollMillis
    /\ wait' = [wait EXCEPT !.at = "loop"]
    /\ UNCHANGED << args, cancel_token, pc, result, host_queried, device, stream,
                    clockVars, cbVars, cancel_info, err_logged,
                    preset_options, selected >>

\* line 30: thread::sleep(500 ms)
WaitSleep ==
    /\ pc = "Playing"
    /\ wait.at = "sleep"
    /\ now' = now + PollMillis
    /\ wait' = [wait EXCEPT !.at = "loop"]
    /\ UNCHANGED << args, cancel_token, pc, result, host_queried, device, stream,
                    clockVars, cbVars, cancel_info, err_logged,
                    preset_options, selected >>

\* line 147, leaving the function: the stream starts to be dropped, and the
\* device invokes the callback no more
DropStream ==
    /\ pc = "Stopping"
    /\ stream = "playing"
    /\ stream' = "closing"
    /\ UNCHANGED << args, cancel_token, pc, result, host_queried, device,
                    clockVars, cbVars, wait, now, cancel_info, err_logged,
                    preset_options, selected >>

\* an error of the stop propagated to the caller
TeardownCanFail ==
    /\ pc = "Stopping"
    /\ stream = "closing"
    /\ cb.at = "idle"
    /\ \/ pc' = "Done" /\ result' = "Ok"
       \/ pc' = "Failed" /\ result' = "PlayStream"
    /\ stream' = "dropped"
    /\ sample_clock_left' = -1
    /\ sample_clock_right' = -1
    /\ locks' = locks
    /\ UNCHANGED << args, cancel_token, host_queried, device, cbVars, wait, now,
                    cancel_info, err_logged, preset_options, selected >>

\* Ok(()) returned with the stream left running (the handle leaked, not
\* dropped)
TeardownLeaksStream ==
    /\ pc = "Stopping"
    /\ stream = "closing"
    /\ cb.at = "idle"
    /\ pc' = "Done"
    /\ result' = "Ok"
    /\ stream' = "playing"
    /\ UNCHANGED << args, cancel_token, host_queried, device, clockVars, cbVars,
                    wait, now, cancel_info, err_logged, preset_options,
                    selected >>

\* line 147: the drop ends once no invocation is in progress, the closure and
\* its clocks are freed, and Ok(()) is returned
Teardown ==
    /\ pc = "Stopping"
    /\ stream = "closing"
    /\ cb.at = "idle"
    /\ pc' = "Done"
    /\ result' = "Ok"
    /\ stream' = "dropped"
    /\ sample_clock_left' = -1
    /\ sample_clock_right' = -1
    /\ locks' = locks
    /\ UNCHANGED << args, cancel_token, host_queried, device, cbVars, wait, now,
                    cancel_info, err_logged, preset_options, selected >>

----------------------------------------------------------------------------
(* The output callback: bb_generator.rs:98-137 *)

\* lines 98-100, 113-114: the device asks for n frames; the flag is loaded,
\* and on the tone path both clocks are locked
CallbackEnter ==
    /\ stream = "playing"
    /\ cb.at = "idle"
    /\ \E n \in 1 .. MaxFrames :
        /\ cancel_token \/ sample_clock_left + n <= MaxClock
        /\ cb' = [at |-> IF cancel_token THEN "silence" ELSE LockClocks(locks).at,
                  len |-> n, pos |-> 0, flag_at_entry |-> cancel_token]
        /\ data' = FreshBuffer(n, device.channels)
    /\ locks' = IF cancel_token THEN locks ELSE LockClocks(locks).locks
    /\ cb_ran' = TRUE
    /\ UNCHANGED << args, cancel_token, ctlVars, sample_clock_left,
                    sample_clock_right, cancel_info, tone_frames, err_logged,
                    preset_options, selected >>

\* a silence loop that still advances the clocks
SilenceStepAdvancesClocks ==
    /\ cb.at = "silence"
    /\ cb.pos < cb.len
    /\ data' = [data EXCEPT ![cb.pos + 1] = SilenceFrame(@, device.channels)]
    /\ sample_clock_left' = sample_clock_left + 1
    /\ sample_clock_right' = sample_clock_right + 1
    /\ locks' = locks
    /\ cb' = [cb EXCEPT !.pos = @ + 1]
    /\ UNCHANGED << args, cancel_token, ctlVars, cancel_info, cb_ran,
                    tone_frames, err_logged, preset_options, selected >>

\* lines 102-109: one frame of the silence loop
SilenceStep ==
    /\ cb.at = "silence"
    /\ cb.pos < cb.len
    /\ data' = [data EXCEPT ![cb.pos + 1] = SilenceFrame(@, device.channels)]
    /\ cb' = [cb EXCEPT !.pos = @ + 1]
    /\ UNCHANGED << args, cancel_token, ctlVars, clockVars, cancel_info, cb_ran,
                    tone_frames, err_logged, preset_options, selected >>

\* a tone loop that advances the left clock only
ToneStepLeftClockOnly ==
    /\ cb.at = "tone"
    /\ cb.pos < cb.len
    /\ LET left_sample == Sample(f_left, sample_clock_left, device.rate)
           right_sample == Sample(f_right, sample_clock_right, device.rate)
       IN data' = [data EXCEPT ![cb.pos + 1] =
                       ToneFrame(@, device.channels, left_sample, right_sample)]
    /\ sample_clock_left' = sample_clock_left + 1
    /\ sample_clock_right' = sample_clock_right
    /\ locks' = locks
    /\ cb' = [cb EXCEPT !.pos = @ + 1]
    /\ tone_frames' = tone_frames + 1
    /\ UNCHANGED << args, cancel_token, ctlVars, cancel_info, cb_ran, err_logged,
                    preset_options, selected >>

\* a tone loop that advances each clock before it takes the sample
ToneStepIncrementsFirst ==
    /\ cb.at = "tone"
    /\ cb.pos < cb.len
    /\ LET left_sample == Sample(f_left, sample_clock_left + 1, device.rate)
           right_sample == Sample(f_right, sample_clock_right + 1, device.rate)
       IN data' = [data EXCEPT ![cb.pos + 1] =
                       ToneFrame(@, device.channels, left_sample, right_sample)]
    /\ sample_clock_left' = sample_clock_left + 1
    /\ sample_clock_right' = sample_clock_right + 1
    /\ locks' = locks
    /\ cb' = [cb EXCEPT !.pos = @ + 1]
    /\ tone_frames' = tone_frames + 1
    /\ UNCHANGED << args, cancel_token, ctlVars, cancel_info, cb_ran, err_logged,
                    preset_options, selected >>

\* a tone loop that loads the flag again at each frame and writes silence
\* once it is set
ToneStepLoadsFlag ==
    /\ cb.at = "tone"
    /\ cb.pos < cb.len
    /\ LET left_sample == Sample(f_left, sample_clock_left, device.rate)
           right_sample == Sample(f_right, sample_clock_right, device.rate)
       IN data' = [data EXCEPT ![cb.pos + 1] =
                       IF cancel_token
                       THEN SilenceFrame(@, device.channels)
                       ELSE ToneFrame(@, device.channels, left_sample, right_sample)]
    /\ sample_clock_left' = sample_clock_left + 1
    /\ sample_clock_right' = sample_clock_right + 1
    /\ locks' = locks
    /\ cb' = [cb EXCEPT !.pos = @ + 1]
    /\ tone_frames' = tone_frames + 1
    /\ UNCHANGED << args, cancel_token, ctlVars, cancel_info, cb_ran, err_logged,
                    preset_options, selected >>

\* lines 116-136: one frame of the tone loop
ToneStep ==
    /\ cb.at = "tone"
    /\ cb.pos < cb.len
    /\ LET left_sample == Sample(f_left, sample_clock_left, device.rate)
           right_sample == Sample(f_right, sample_clock_right, device.rate)
       IN data' = [data EXCEPT ![cb.pos + 1] =
                       ToneFrame(@, device.channels, left_sample, right_sample)]
    /\ sample_clock_left' = sample_clock_left + 1
    /\ sample_clock_right' = sample_clock_right + 1
    /\ locks' = locks
    /\ cb' = [cb EXCEPT !.pos = @ + 1]
    /\ tone_frames' = tone_frames + 1
    /\ UNCHANGED << args, cancel_token, ctlVars, cancel_info, cb_ran, err_logged,
                    preset_options, selected >>

\* lines 110, 137: the invocation returns (the guards are dropped) and the
\* buffer goes back to the device
CallbackReturn ==
    /\ cb.at \in {"silence", "tone"}
    /\ cb.pos = cb.len
    /\ cb' = CbIdle
    /\ data' = << >>
    /\ locks' = Released(locks)
    /\ UNCHANGED << args, cancel_token, ctlVars, sample_clock_left,
                    sample_clock_right, cancel_info, cb_ran, tone_frames,
                    err_logged, preset_options, selected >>

----------------------------------------------------------------------------
(* The cancellation listener (specification, section 4.5) *)

\* a trigger that flips the flag
TriggerToggles ==
    /\ cancel_token' = ~cancel_token
    /\ cancel_info' = IF cancel_token THEN cancel_info ELSE [at |-> now, pc |-> pc]
    /\ UNCHANGED << args, ctlVars, clockVars, cbVars, err_logged, preset_options,
                    selected >>

\* a stop trigger: store true
Trigger ==
    /\ cancel_token' = TRUE
    /\ cancel_info' = IF cancel_token THEN cancel_info ELSE [at |-> now, pc |-> pc]
    /\ UNCHANGED << args, ctlVars, clockVars, cbVars, err_logged, preset_options,
                    selected >>

----------------------------------------------------------------------------
Controller ==
    \/ Invoke
    \/ Validate
    \/ OpenDevice
    \/ BuildStream
    \/ PlayStream
    \/ WaitStart
    \/ WaitPoll
    \/ WaitSleep
    \/ DropStream
    \/ Teardown

Callback ==
    \/ CallbackEnter
    \/ SilenceStep
    \/ ToneStep
    \/ CallbackReturn

Next ==
    \/ Controller
    \/ Callback
    \/ Trigger

Spec == Init /\ [][Next]_vars

\* one valid pair of frequencies, every duration
LiveInit == Init /\ args.carrier = 2 /\ args.beat = 0

\* the controller and the audio thread are running threads: a sleep returns,
\* a buffer is finite
FairSpec == LiveInit /\ [][Next]_vars /\ WF_vars(Controller) /\ WF_vars(Callback)

----------------------------------------------------------------------------
(* The call with a preset group, up to the end of the checks *)

\* every group the struct can hold, with the custom values above
PresetGroups ==
    [preset : Presets, carrier : CarrierFrequencies, beat : BeatFrequencies,
     duration : Durations]

\* a preset not yet made into its group
Selection(p) == [NoPreset EXCEPT !.preset = p]

\* the caller has either a group of its own making or a preset of the list
PresetInit ==
    /\ \/ preset_options \in PresetGroups /\ selected = "none"
       \/ \E p \in Presets : preset_options = Selection(p) /\ selected = p
    /\ args = NoArgs
    /\ cancel_token = FALSE
    /\ pc = "Idle"
    /\ result = "none"
    /\ host_queried = FALSE
    /\ device = NoDevice
    /\ stream = "none"
    /\ sample_clock_left = -1
    /\ sample_clock_right = -1
    /\ locks = Unlocked
    /\ cb = CbIdle
    /\ data = << >>
    /\ wait = NoWait
    /\ now = 0
    /\ cancel_info = NotCancelled
    /\ cb_ran = FALSE
    /\ tone_frames = 0
    /\ err_logged = FALSE

\* BinauralPresetGroup::from(preset)
FromPreset ==
    /\ pc = "Idle"
    /\ selected # "none"
    /\ preset_options = Selection(selected)
    /\ preset_options' = BinauralPresetGroup_from(selected)
    /\ UNCHANGED << args, cancel_token, ctlVars, clockVars, cbVars, cancel_info,
                    err_logged, selected >>

\* lines 43-51: the call with a group; carrier.to_hz(), beat.to_hz(),
\* duration.to_minutes()
InvokeWithPreset ==
    /\ pc = "Idle"
    /\ preset_options \in PresetGroups
    /\ args' = [carrier |-> CarrierFrequency_to_hz(preset_options.carrier),
                beat |-> BeatFrequency_to_hz(preset_options.beat),
                minutes |-> to_minutes(preset_options.duration)]
    /\ pc' = "Validating"
    /\ UNCHANGED << cancel_token, result, host_queried, device, stream,
                    clockVars, cbVars, wait, now, cancel_info, err_logged,
                    preset_options, selected >>

PresetNext ==
    \/ FromPreset
    \/ InvokeWithPreset
    \/ Validate

PresetSpec == PresetInit /\ [][PresetNext]_vars

----------------------------------------------------------------------------
(* The session length of a generic minute count: lib.rs:509-527 takes any   *)
(* D: ToMinutes, and duration_common.rs:5-7 lets to_minutes return any u32. *)
(* The controller is followed up to the first line of wait_until_end.       *)

LengthInit ==
    /\ args \in [carrier : {2}, beat : BeatInputs, minutes : GenericMinutes]
    /\ cancel_token = FALSE
    /\ pc = "Idle"
    /\ result = "none"
    /\ host_queried = FALSE
    /\ device = NoDevice
    /\ stream = "none"
    /\ sample_clock_left = -1
    /\ sample_clock_right = -1
    /\ locks = Unlocked
    /\ cb = CbIdle
    /\ data = << >>
    /\ wait = NoWait
    /\ now = 0
    /\ cancel_info = NotCancelled
    /\ cb_ran = FALSE
    /\ tone_frames = 0
    /\ err_logged = FALSE
    /\ preset_options = NoPreset
    /\ selected = "none"

LengthNext ==
    \/ Invoke
    \/ Validate
    \/ OpenDevice
    \/ BuildStream
    \/ PlayStream
    \/ WaitStartU32

LengthSpec == LengthInit /\ [][LengthNext]_vars

----------------------------------------------------------------------------
(* The error callback: bb_generator.rs:138 *)

\* a device error that ends the session as failed
StreamErrorFailsSession ==
    /\ stream = "playing"
    /\ err_logged' = TRUE
    /\ pc' = "Failed"
    /\ result' = "DeviceRuntimeError"
    /\ UNCHANGED << args, cancel_token, host_queried, device, stream, wait, now,
                    clockVars, cbVars, cancel_info, preset_options, selected >>

\* the device reports an error on the running stream:
\* |err| eprintln!("An error occurred on stream: {}", err)
StreamError ==
    /\ stream = "playing"
    /\ err_logged' = TRUE
    /\ UNCHANGED << args, cancel_token, ctlVars, clockVars, cbVars, cancel_info,
                    preset_options, selected >>

ErrNext ==
    \/ Next
    \/ StreamError

\* the sessions of LiveInit on a device that may report errors
ErrSpec == LiveInit /\ [][ErrNext]_vars

----------------------------------------------------------------------------
(* A fault of the phase state.  The clocks are Arc<Mutex<f64>>, and          *)
(* generate_binaural_beats keeps a handle of each (lines 89-90) besides the  *)
(* one moved into the callback.  No thread of the program locks them but the *)
(* audio thread, so the step below is no step of the program: it is the      *)
(* contended or poisoned lock that section 4.3 of the specification asks the *)
(* callback to survive.                                                      *)

\* between two invocations, a holder of a clock's handle takes its mutex
\* ("other") or has panicked with the guard in hand ("poisoned")
ClockFault ==
    /\ stream = "playing"
    /\ cb.at = "idle"
    /\ locks = Unlocked
    /\ \E side \in {"left", "right"}, how \in {"other", "poisoned"} :
           locks' = [locks EXCEPT ![side] = how]
    /\ UNCHANGED << args, cancel_token, ctlVars, sample_clock_left,
                    sample_clock_right, cbVars, cancel_info, err_logged,
                    preset_options, selected >>

FaultNext ==
    \/ Next
    \/ ClockFault

\* the sessions of LiveInit, with the fault
FaultSpec == LiveInit /\ [][FaultNext]_vars

----------------------------------------------------------------------------
(* Vocabulary of the properties *)

\* every channel of a frame holds 0.0
AllZero(frame) == \A c \in DOMAIN frame : frame[c] = Zero

\* this step rendered frame number cb'.pos of the buffer
FrameRendered == cb'.at = cb.at /\ cb'.pos = cb.pos + 1

\* the controller has taken its decision on the arguments
Validated == pc \notin {"Idle", "Validating"}

\* carrierHz > beatHz/2, carrierHz > -beatHz/2, carrierHz <= beatHz/2: stated
\* on the inputs, without the model's own halving
CarrierAboveHalfBeat == 2 * args.carrier > args.beat
CarrierAboveMinusHalfBeat == 2 * args.carrier > -args.beat
CarrierAtMostHalfBeat == 2 * args.carrier <= args.beat

\* durationMinutes * 60 seconds, in ms
ConfiguredMillis == args.minutes * 60 * 1000

ValidationErrors == {"InvalidFrequency", "InvalidDuration"}

----------------------------------------------------------------------------
(* C1 *)

\* C1, as stated, on the mono and stereo devices the specification covers:
\* once the cancellation flag is true, every frame rendered afterwards, the
\* rest of the buffer being filled included, is 0.0 on every channel.
C1_EveryLaterFrameSilent ==
    [][(cancel_token /\ FrameRendered /\ device.channels \in {1, 2})
            => AllZero(data'[cb'.pos])]_vars

\* C1, amended: every frame rendered by a callback invocation that began with
\* the flag true is 0.0 on every channel of a mono or stereo device, and 0.0 on
\* channel 0 of any other device, whatever the number and length of buffers.
C1_InvocationsAfterCancelSilent ==
    cb.flag_at_entry =>
        \A i \in 1 .. cb.pos :
            IF device.channels \in {1, 2} THEN AllZero(data[i]) ELSE data[i][1] = Zero

\* a whole stereo buffer of at least two frames rendered after cancellation,
\* in a session that rendered tone before
C1_Witness ==
    /\ cb.flag_at_entry
    /\ device.channels = 2
    /\ cb.len >= 2
    /\ cb.pos = cb.len
    /\ sample_clock_left > 0

----------------------------------------------------------------------------
(* C2 *)

\* C2: when the flag is set while the controller is in Playing, the clock
\* never gets more than one polling interval past the moment of the set
\* before the controller is Done: it takes no further sleep, and does not
\* wait for the configured duration.
C2_CancelLatency ==
    cancel_info.pc = "Playing" =>
        /\ pc \in {"Playing", "Stopping", "Done"}
        /\ now - cancel_info.at <= PollMillis
        /\ (wait.at = "sleep" => now = cancel_info.at)

\* cancelled at t = 5 s, Done no later than 5.5 s, long before the minute is over
C2_Witness ==
    /\ cancel_info.pc = "Playing"
    /\ cancel_info.at = 5000
    /\ pc = "Done"
    /\ wait.why = "cancelled"
    /\ now < ConfiguredMillis

----------------------------------------------------------------------------
(* C3 *)

\* C3: a session that has reached Playing leaves it and ends, with or
\* without a cancellation; it leaves Playing only once the duration has
\* elapsed or the flag is true.
C3_PlayingEnds ==
    /\ (pc = "Playing") ~> (pc = "Done")
    /\ [](pc \in {"Stopping", "Done"} => (now >= ConfiguredMillis \/ cancel_token))

\* a session that ended by the clock alone
C3_Witness ==
    /\ pc = "Done"
    /\ ~cancel_token
    /\ now >= ConfiguredMillis
    /\ args.minutes >= 1

----------------------------------------------------------------------------
(* C4 *)

\* C4: without cancellation the controller is in Playing until the
\* configured duration has elapsed and leaves it less than one polling
\* interval later, and it comes back to the head of its loop only through a
\* sleep of one polling interval.
C4_TimedExit ==
    /\ []((pc \in {"Stopping", "Done"} /\ ~cancel_token) => now >= ConfiguredMillis)
    /\ []((pc \in {"Stopping", "Done"} /\ wait.why = "elapsed") =>
            (now >= ConfiguredMillis /\ now - ConfiguredMillis <= PollMillis))
    /\ [](pc = "Playing" => now <= ConfiguredMillis + PollMillis)
    /\ [][(wait.at # "none" /\ wait.at # "loop" /\ wait'.at = "loop")
            => now' = now + PollMillis]_vars

\* the wait ran its full minute and returned by the clock
C4_Witness ==
    /\ pc = "Stopping"
    /\ wait.why = "elapsed"
    /\ ~cancel_token
    /\ args.minutes = 1
    /\ now = 60000

----------------------------------------------------------------------------
(* C5 *)

\* C5: with carrierHz <= beatHz/2 the call fails with the invalid-frequency
\* error, and the host has not been asked for a device nor a stream built.
C5_LowCarrierRejected ==
    (CarrierAtMostHalfBeat /\ Validated) =>
        /\ pc = "Failed"
        /\ result = "InvalidFrequency"
        /\ ~host_queried
        /\ ~device.open
        /\ stream = "none"

\* carrier 1.0 Hz, beat 10.0 Hz, left = -4.0 Hz
C5_Witness ==
    /\ args.carrier = 2
    /\ args.beat = 20
    /\ f_left = -8
    /\ pc = "Failed"
    /\ result = "InvalidFrequency"

----------------------------------------------------------------------------
(* C6 *)

\* C6, as stated: carrierHz > beatHz/2 makes both ear frequencies positive
\* and the pair is accepted, negative beats included.
C6_AboveHalfBeatAccepted ==
    (CarrierAboveHalfBeat /\ Validated) =>
        /\ f_left > 0
        /\ f_right > 0
        /\ result # "InvalidFrequency"

\* C6, amended: with carrierHz > beatHz/2 and carrierHz > -beatHz/2 the ear
\* frequencies carrierHz - beatHz/2 and carrierHz + beatHz/2 are both
\* positive and frequency validation accepts the pair.
C6_AboveHalfAbsBeatAccepted ==
    (CarrierAboveHalfBeat /\ CarrierAboveMinusHalfBeat) =>
        /\ 2 * f_left = 2 * args.carrier - args.beat
        /\ 2 * f_right = 2 * args.carrier + args.beat
        /\ f_left > 0
        /\ f_right > 0
        /\ (Validated => result # "InvalidFrequency")

\* a negative beat that passes: carrier 1.0 Hz, beat -1.0 Hz
C6_Witness ==
    /\ args.carrier = 2
    /\ args.beat = -2
    /\ args.minutes >= 1
    /\ pc = "StreamStarting"

----------------------------------------------------------------------------
(* C7 *)

\* C7: with valid ear frequencies the call fails with the invalid-duration
\* error exactly when durationMinutes is 0, and passes validation for every
\* durationMinutes >= 1.
C7_ZeroDurationRejected ==
    (CarrierAboveHalfBeat /\ CarrierAboveMinusHalfBeat /\ Validated) =>
        /\ (result = "InvalidDuration" <=> args.minutes = 0)
        /\ (args.minutes = 0 => pc = "Failed")
        /\ (args.minutes >= 1 => result \notin ValidationErrors)

\* a zero-minute session with valid frequencies, refused
C7_Witness ==
    /\ CarrierAboveHalfBeat
    /\ CarrierAboveMinusHalfBeat
    /\ args.minutes = 0
    /\ pc = "Failed"
    /\ result = "InvalidDuration"

----------------------------------------------------------------------------
(* C8 *)

\* C8: when the call has returned a validation error, no device was asked
\* for or opened, no stream and no clocks exist, the callback never ran; an
\* error returned before the host is asked for a device is one of the two
\* validation errors; and no step of the controller changes the flag.
C8_ValidationFailureNoEffect ==
    /\ [](result \in ValidationErrors =>
            /\ pc = "Failed"
            /\ ~host_queried
            /\ device = NoDevice
            /\ stream = "none"
            /\ sample_clock_left = -1
            /\ sample_clock_right = -1
            /\ ~cb_ran
            /\ cb = CbIdle
            /\ wait = NoWait)
    /\ []((result # "none" /\ ~host_queried) => result \in ValidationErrors)
    /\ [][pc' # pc => cancel_token' = cancel_token]_vars

\* a call that returned the invalid-frequency error
C8_Witness ==
    /\ result = "InvalidFrequency"
    /\ pc = "Failed"
    /\ ~host_queried
    /\ ~cancel_token

----------------------------------------------------------------------------
(* C9 *)

ControllerOrder ==
    { << "Idle", "Validating" >>,
      << "Validating", "StreamStarting" >>,
      << "Validating", "Failed" >>,
      << "StreamStarting", "Playing" >>,
      << "StreamStarting", "Failed" >>,
      << "Playing", "Stopping" >>,
      << "Stopping", "Done" >> }

\* C9: the controller moves Idle, Validating, StreamStarting, Playing,
\* Stopping, Done in that order, one state at a time; Failed is entered only
\* from Validating or StreamStarting; nothing leaves Failed or Done.
C9_StateOrder ==
    [][pc' # pc => << pc, pc' >> \in ControllerOrder]_vars

\* a run that went through all six states
C9_Witness ==
    /\ pc = "Done"
    /\ result = "Ok"
    /\ wait.at = "returned"
    /\ stream = "dropped"

----------------------------------------------------------------------------
(* C10 *)

\* C10: the flag only goes from false to true; no step of the callback or of
\* the controller writes it; no invocation that began with the flag true
\* renders tone.
C10_FlagMonotone ==
    /\ [][cancel_token => cancel_token']_vars
    /\ [][cancel_token' # cancel_token
            => (UNCHANGED ctlVars /\ UNCHANGED cbVars /\ UNCHANGED clockVars)]_vars
    /\ [](cb.at = "tone" => ~cb.flag_at_entry)

\* the flag still true after the controller polled it, left and finished
C10_Witness ==
    /\ cancel_token
    /\ wait.why = "cancelled"
    /\ pc = "Done"
    /\ cb_ran

----------------------------------------------------------------------------
\* C11: an invocation of the callback that loaded the flag as true leaves both
\* sample clocks as they were, in its entry, in each frame of its buffer and
\* in its return, whatever the length of the buffer.
C11_SilentInvocationKeepsClocks ==
    [][((cb.at # "idle" /\ cb.flag_at_entry) \/ (cb'.at # "idle" /\ cb'.flag_at_entry))
          => /\ sample_clock_left' = sample_clock_left
             /\ sample_clock_right' = sample_clock_right]_vars

\* some tone was rendered, then a buffer of several frames was filled with
\* silence to its end
C11_Witness ==
    /\ cb.at = "silence"
    /\ cb.flag_at_entry
    /\ cb.len >= 2
    /\ cb.pos = cb.len
    /\ sample_clock_left >= 1
    /\ sample_clock_right >= 1

----------------------------------------------------------------------------
\* the stream exists: from build_output_stream to the end of its drop
StreamExists == stream \in {"built", "playing", "closing"}

\* C12: both sample clocks are 0 when the stream is built; each frame of tone
\* rendered adds exactly 1 to each of them; and as long as the stream exists
\* no step lowers one of them or sets it back.
C12_ClocksCountToneFrames ==
    [][/\ (~StreamExists /\ StreamExists')
            => (sample_clock_left' = 0 /\ sample_clock_right' = 0)
       /\ (cb.at = "tone" /\ FrameRendered)
            => /\ sample_clock_left' = sample_clock_left + 1
               /\ sample_clock_right' = sample_clock_right + 1
       /\ (StreamExists /\ StreamExists')
            => /\ sample_clock_left' >= sample_clock_left
               /\ sample_clock_right' >= sample_clock_right]_vars

\* two buffers of tone were rendered, and the session has gone on to its stop
C12_Witness ==
    /\ pc = "Stopping"
    /\ stream = "playing"
    /\ sample_clock_left = 2
    /\ sample_clock_right = 2
    /\ cb.at = "tone"
    /\ cb.len = 1
    /\ cb.pos = 1

----------------------------------------------------------------------------
\* C13: the i-th frame of tone of a session, counted from 0 over all the
\* invocations of the callback, is the frame computed from sample index i on
\* the left and on the right, whatever the lengths of the buffers were; the
\* first frame of tone, from index 0, is exactly 0.0 on the channels of a
\* mono or stereo device.
C13_FrameIndexIsSampleIndex ==
    [][(cb.at = "tone" /\ FrameRendered) =>
          LET i == tone_frames
              frame == data'[cb.pos + 1]
          IN /\ frame = ToneFrame(data[cb.pos + 1], device.channels,
                                  Sample(f_left, i, device.rate),
                                  Sample(f_right, i, device.rate))
             /\ (i = 0 /\ device.channels \in {1, 2}) => AllZero(frame)]_vars

\* the frame of index 1 was rendered as the first frame of a second buffer,
\* and it is not silent
C13_Witness ==
    /\ cb.at = "tone"
    /\ cb.pos = 1
    /\ tone_frames = 2
    /\ cb_ran
    /\ device.channels = 2
    /\ data[1] # << Zero, Zero >>

----------------------------------------------------------------------------
\* a written sample that is num/den of the value x
IsScaled(sample, x, den) == sample[1] = "v" /\ den * sample[2] = x

\* C14: a frame of tone on a stereo device is half the left sample on
\* channel 0 and half the right sample on channel 1, neither exchanged nor
\* mixed; on a mono device it is a quarter of their sum on the one channel,
\* so left 0.6 and right 0.2 give 0.2.
C14_ChannelMapping ==
    [][/\ (cb.at = "tone" /\ FrameRendered) =>
            LET left_sample == Sample(f_left, sample_clock_left, device.rate)
                right_sample == Sample(f_right, sample_clock_right, device.rate)
                frame == data'[cb.pos + 1]
            IN /\ device.channels = 2 =>
                      /\ IsScaled(frame[1], left_sample, 2)
                      /\ IsScaled(frame[2], right_sample, 2)
               /\ device.channels = 1 =>
                      IsScaled(frame[1], left_sample + right_sample, 4)
       /\ ToneFrame(<< Stale >>, 1, 2400, 800) = << Val(800) >>
       /\ ToneFrame(<< Stale, Stale >>, 2, 2400, 800) = << Val(1200), Val(400) >>]_vars

\* a stereo frame whose ears differ: the left sample at full scale, the
\* right one at minus full scale
C14_Witness ==
    /\ cb.at = "tone"
    /\ cb.pos >= 1
    /\ device.channels = 2
    /\ data[cb.pos] = << Val(2000), Val(-2000) >>

----------------------------------------------------------------------------
\* both clocks can be locked at once without a wait
ClocksObtainable == locks = Unlocked

\* C15: the callback neither waits nor panics on the audio thread: an
\* invocation goes on to fill its buffer, and one that cannot lock the clocks
\* (a mutex held by someone else, or poisoned) fills it with silence.
C15_DegradesToSilence ==
    [][(cb.at = "idle" /\ cb'.at # "idle") =>
          /\ cb'.at \in {"silence", "tone"}
          /\ ~ClocksObtainable => cb'.at = "silence"]_vars

----------------------------------------------------------------------------
\* C16: from the start of the stream to its teardown the sample clocks are
\* the callback's alone: a step that changes a clock or takes or drops a lock
\* is a step of an invocation of the callback and changes nothing of the
\* controller, and a lock is never in other hands than the callback's.
C16_ClocksOwnedByCallback ==
    [][(StreamExists /\ StreamExists') =>
          /\ (sample_clock_left' # sample_clock_left
                \/ sample_clock_right' # sample_clock_right)
               => (cb.at = "tone" /\ FrameRendered /\ UNCHANGED ctlVars)
          /\ locks' # locks
               => (cb' # cb /\ (cb.at = "tone" \/ cb'.at = "tone") /\ UNCHANGED ctlVars)
          /\ \A side \in {"left", "right"} :
               /\ locks'[side] \in {"free", "callback"}
               /\ locks'[side] = "callback" <=> cb'.at = "tone"]_vars

\* the controller sleeps in its wait while an invocation holds both locks
\* and has advanced the clocks
C16_Witness ==
    /\ pc = "Playing"
    /\ wait.at = "sleep"
    /\ now > 0
    /\ cb.at = "tone"
    /\ locks.left = "callback"
    /\ locks.right = "callback"
    /\ sample_clock_left >= 1

----------------------------------------------------------------------------
\* the device may invoke the callback
StreamRuns == stream = "playing"

\* C17: a step that sets the flag leaves the stream as it is; the stream
\* stops running only in a step of the controller taken after it left
\* Playing; as long as it runs with the flag set, the device can invoke the
\* callback once more; and once Done is reached the stream is dropped, the
\* clocks are freed, and no invocation begins or goes on.
C17_TeardownIsTheControllers ==
    [][/\ cancel_token' # cancel_token => stream' = stream
       /\ (StreamRuns /\ ~StreamRuns')
            => (pc = "Stopping" /\ wait.at = "returned" /\ cancel_token' = cancel_token
                /\ UNCHANGED cbVars)
       /\ (StreamRuns /\ cb.at = "idle" /\ cancel_token) => ENABLED CallbackEnter
       /\ pc' = "Done"
            => /\ stream' = "dropped"
               /\ cb' = CbIdle
               /\ sample_clock_left' = -1
               /\ sample_clock_right' = -1
       /\ pc = "Done" => UNCHANGED cbVars]_vars

\* the flag is set, the controller has left Playing because of it, and an
\* invocation that began after the flag was set is in progress
C17_Witness ==
    /\ cancel_token
    /\ pc = "Stopping"
    /\ StreamRuns
    /\ cb.flag_at_entry
    /\ cb.at = "silence"
    /\ cb_ran
    /\ wait.why = "cancelled"

----------------------------------------------------------------------------
\* every variable but the record of the error sink
butErrVars == << args, cancel_token, ctlVars, clockVars, cbVars, cancel_info >>

\* C18, as the claim has it: a device error reported on the running stream
\* is only logged, the controller neither recovers nor restarts, and the
\* session counts as failed: it does not end in Done with Ok.
C18_DeviceErrorFailsSession ==
    err_logged => ~(pc = "Done" /\ result = "Ok")

\* C18, amended: a device error reported on the running stream is only
\* logged; the controller neither recovers nor restarts (the stream is never
\* built or started again, it only goes on to its teardown), and nothing
\* marks the session as failed: the controller never goes to Failed and the
\* call returns no error.
C18_DeviceErrorOnlyLogged ==
    [][/\ err_logged' # err_logged => UNCHANGED butErrVars
       /\ err_logged =>
            /\ stream' # stream => stream' \in {"closing", "dropped"}
            /\ pc' \in {"Playing", "Stopping", "Done"}
            /\ result' \in {"none", "Ok"}]_vars

\* an error was logged, and the session has ended in Done with Ok(())
C18_Witness ==
    /\ err_logged
    /\ pc = "Done"
    /\ result = "Ok"
    /\ wait.why = "elapsed"

----------------------------------------------------------------------------
\* C19: the listener is idempotent.  The first stop trigger sets the flag and
\* nothing else (the history of it apart); a trigger that finds the flag set,
\* whatever the callback and the controller are doing, can always be taken,
\* leaves the flag set and changes nothing: the flag never goes back, and the
\* record of the first trigger is never written again.
C19_ListenerIdempotent ==
    [][/\ ENABLED Trigger
       /\ (~cancel_token /\ Trigger)
            => (cancel_token' /\ cancel_info' = [at |-> now, pc |-> pc])
       /\ (cancel_token /\ Trigger) => UNCHANGED vars
       /\ cancel_token => (cancel_token' /\ cancel_info' = cancel_info)]_vars

\* the flag was set while the controller slept; half a second later the
\* controller has not yet polled it, the callback is filling a buffer with
\* silence, and a further trigger can arrive
C19_Witness ==
    /\ cancel_token
    /\ cancel_info.at >= 0
    /\ cancel_info.at < now
    /\ pc = "Playing"
    /\ wait.at = "loop"
    /\ cb.at = "silence"
    /\ cb.pos < cb.len

----------------------------------------------------------------------------
\* the minutes each duration is named after
NominalMinutes ==
    {<< "FiveMinutes", 5 >>, << "TenMinutes", 10 >>, << "FifteenMinutes", 15 >>,
     << "TwentyMinutes", 20 >>, << "ThirtyMinutes", 30 >>,
     << "ThirtyFiveMinutes", 35 >>, << "FortyMinutes", 40 >>,
     << "FiftyMinutes", 50 >>, << "SixtyMinutes", 60 >>}

\* C20: to_minutes gives every duration the minutes it is named after (5,
\* 10, 15, 20, 30, 35, 40, 50, 60), so the duration_minutes of a call with a
\* preset group is at least 1 and at most 60.
C20_NominalMinutes ==
    pc # "Idle" =>
        /\ << preset_options.duration, args.minutes >> \in NominalMinutes
        /\ args.minutes >= 1
        /\ args.minutes <= 60

\* a call with ThirtyFiveMinutes has passed the checks with 35 minutes
C20_Witness ==
    /\ preset_options.duration = "ThirtyFiveMinutes"
    /\ pc = "StreamStarting"
    /\ args.minutes = 35

----------------------------------------------------------------------------
\* the groups expected of the presets, as the tests of preset.rs list them
PresetTable ==
    {
     [preset |-> "Focus", carrier |-> << "Beta" >>,
      beat |-> << "Beta" >>, duration |-> "ThirtyMinutes"],
     [preset |-> "HighFocus", carrier |-> << "Gamma" >>,
      beat |-> << "Gamma" >>, duration |-> "ThirtyMinutes"],
     [preset |-> "Relaxation", carrier |-> << "Alpha" >>,
      beat |-> << "Alpha" >>, duration |-> "FifteenMinutes"],
     [preset |-> "DeepRelaxation", carrier |-> << "Theta" >>,
      beat |-> << "Theta" >>, duration |-> "FifteenMinutes"],
     [preset |-> "Sleep", carrier |-> << "Delta" >>,
      beat |-> << "Delta" >>, duration |-> "SixtyMinutes"],
     [preset |-> "Chanting", carrier |-> << "Theta" >>,
      beat |-> << "Theta" >>, duration |-> "ThirtyMinutes"],
     [preset |-> "Intuition", carrier |-> << "Theta" >>,
      beat |-> << "Theta" >>, duration |-> "FifteenMinutes"],
     [preset |-> "Astral", carrier |-> << "Custom", 14000 >>,
      beat |-> << "Custom", 630 >>, duration |-> "SixtyMinutes"],
     [preset |-> "Healing", carrier |-> << "Delta" >>,
      beat |-> << "Theta" >>, duration |-> "SixtyMinutes"],
     [preset |-> "Alpha", carrier |-> << "Alpha" >>,
      beat |-> << "Alpha" >>, duration |-> "ThirtyMinutes"],
     [preset |-> "Intelligence", carrier |-> << "Gamma" >>,
      beat |-> << "Gamma" >>, duration |-> "TenMinutes"],
     [preset |-> "Euphoria", carrier |-> << "Custom", 21042 >>,
      beat |-> << "Custom", 2000 >>, duration |-> "TenMinutes"],
     [preset |-> "CrownFocus", carrier |-> << "TuningForkCrown" >>,
      beat |-> << "Beta" >>, duration |-> "ThirtyMinutes"],
     [preset |-> "CrownRelaxation", carrier |-> << "TuningForkCrown" >>,
      beat |-> << "Alpha" >>, duration |-> "FifteenMinutes"],
     [preset |-> "CrownSleep", carrier |-> << "TuningForkCrown" >>,
      beat |-> << "Delta" >>, duration |-> "SixtyMinutes"],
     [preset |-> "CrownChanting", carrier |-> << "TuningForkCrown" >>,
      beat |-> << "Theta" >>, duration |-> "ThirtyMinutes"],
     [preset |-> "CrownIntuition", carrier |-> << "TuningForkCrown" >>,
      beat |-> << "Theta" >>, duration |-> "FifteenMinutes"],
     [preset |-> "CrownAstral", carrier |-> << "TuningForkCrown" >>,
      beat |-> << "Delta" >>, duration |-> "SixtyMinutes"],
     [preset |-> "SolfeggioRoot", carrier |-> << "SolfeggioRoot" >>,
      beat |-> << "Delta" >>, duration |-> "ThirtyMinutes"],
     [preset |-> "SolfeggioSacral", carrier |-> << "SolfeggioSacral" >>,
      beat |-> << "Theta" >>, duration |-> "ThirtyMinutes"],
     [preset |-> "SolfeggioSolarPlexus", carrier |-> << "SolfeggioSolarPlexus" >>,
      beat |-> << "Alpha" >>, duration |-> "ThirtyMinutes"],
     [preset |-> "SolfeggioHeart", carrier |-> << "SolfeggioHeart" >>,
      beat |-> << "Alpha" >>, duration |-> "FifteenMinutes"],
     [preset |-> "SolfeggioThroat", carrier |-> << "SolfeggioThroat" >>,
      beat |-> << "Beta" >>, duration |-> "TenMinutes"],
     [preset |-> "SolfeggioThirdEye", carrier |-> << "SolfeggioThirdEye" >>,
      beat |-> << "Beta" >>, duration |-> "TenMinutes"],
     [preset |-> "SolfeggioCrown", carrier |-> << "SolfeggioCrown" >>,
      beat |-> << "Gamma" >>, duration |-> "TenMinutes"],
     [preset |-> "TuningForkRoot", carrier |-> << "TuningForkRoot" >>,
      beat |-> << "Delta" >>, duration |-> "ThirtyMinutes"],
     [preset |-> "TuningForkSacral", carrier |-> << "TuningForkSacral" >>,
      beat |-> << "Theta" >>, duration |-> "ThirtyMinutes"],
     [preset |-> "TuningForkSolarPlexus", carrier |-> << "TuningForkSolarPlexus" >>,
      beat |-> << "Alpha" >>, duration |-> "ThirtyMinutes"],
     [preset |-> "TuningForkHeart", carrier |-> << "TuningForkHeart" >>,
      beat |-> << "Alpha" >>, duration |-> "FifteenMinutes"],
     [preset |-> "TuningForkThroat", carrier |-> << "TuningForkThroat" >>,
      beat |-> << "Beta" >>, duration |-> "TenMinutes"],
     [preset |-> "TuningForkThirdEye", carrier |-> << "TuningForkThirdEye" >>,
      beat |-> << "Beta" >>, duration |-> "TenMinutes"],
     [preset |-> "TuningForkCrown", carrier |-> << "TuningForkCrown" >>,
      beat |-> << "Gamma" >>, duration |-> "TenMinutes"]
    }

----------------------------------------------------------------------------
\* the Hertz, in hundredths, that the tests of carrier_frequency.rs and of
\* beat_frequency.rs expect of each named variant
CarrierTable ==
    {<< "Delta", 10000 >>, << "Theta", 20000 >>, << "Alpha", 30000 >>,
     << "Beta", 40000 >>, << "Gamma", 50000 >>,
     << "SolfeggioRoot", 39600 >>, << "SolfeggioSacral", 41700 >>,
     << "SolfeggioSolarPlexus", 52800 >>, << "SolfeggioHeart", 63900 >>,
     << "SolfeggioThroat", 74100 >>, << "SolfeggioThirdEye", 85200 >>,
     << "SolfeggioCrown", 96300 >>,
     << "TuningForkRoot", 19418 >>, << "TuningForkSacral", 21042 >>,
     << "TuningForkSolarPlexus", 12622 >>, << "TuningForkHeart", 13610 >>,
     << "TuningForkThroat", 14127 >>, << "TuningForkThirdEye", 22123 >>,
     << "TuningForkCrown", 17206 >>}
BeatTable ==
    {<< "Delta", 200 >>, << "Theta", 600 >>, << "Alpha", 1000 >>, << "Beta", 2000 >>,
     << "Gamma", 4000 >>}

\* hz is what the table has for a named variant, the wrapped value for Custom
IsTableValue(variant, hz, table) ==
    IF variant[1] = "Custom" THEN hz = variant[2] ELSE << variant[1], hz >> \in table

\* C22: to_hz gives each named carrier and each named beat the value of its
\* table (carrier Alpha 300, beat Alpha 10), and gives back the value
\* wrapped by Custom as it is; each named variant has one value.
C22_ToHzIsTheTable ==
    /\ \A n \in CarrierNames : Cardinality({t \in CarrierTable : t[1] = n}) = 1
    /\ \A n \in BeatNames : Cardinality({t \in BeatTable : t[1] = n}) = 1
    /\ pc # "Idle" =>
          /\ IsTableValue(preset_options.carrier, args.carrier, CarrierTable)
          /\ IsTableValue(preset_options.beat, args.beat, BeatTable)

\* a call with carrier Alpha and a custom beat of 99.9 Hz has its 300 Hz
\* and its 99.9 Hz
C22_Witness ==
    /\ preset_options.carrier = << "Alpha" >>
    /\ preset_options.beat = << "Custom", 9990 >>
    /\ args.carrier = 30000
    /\ args.beat = 9990
    /\ pc = "StreamStarting"

----------------------------------------------------------------------------
\* C23: duration_list() is the nine variants of Duration, each once, in the
\* order Five, Ten, Fifteen, Twenty, Thirty, ThirtyFive, Forty, Fifty, Sixty,
\* which is strictly increasing in minutes; so the duration of any group is
\* at one place of the list, and one only.
C23_DurationListInOrder ==
    /\ Len(duration_list) = 9
    /\ {duration_list[i] : i \in 1 .. Len(duration_list)} = Durations
    /\ \A i, j \in 1 .. Len(duration_list) :
          i < j => to_minutes(duration_list[i]) < to_minutes(duration_list[j])
    /\ << to_minutes(duration_list[1]), to_minutes(duration_list[5]),
          to_minutes(duration_list[6]), to_minutes(duration_list[9]) >>
          = << 5, 30, 35, 60 >>
    /\ preset_options.duration \in Durations =>
          Cardinality({i \in 1 .. Len(duration_list) :
                          duration_list[i] = preset_options.duration}) = 1

\* a call with the sixth duration of the list, thirty-five minutes
C23_Witness ==
    /\ preset_options.duration = duration_list[6]
    /\ args.minutes = 35
    /\ pc = "Validating"

----------------------------------------------------------------------------
\* C24: the callback loads the flag once, as it is entered.  What it loaded
\* is what the flag was then, and it stays the choice for the whole buffer:
\* every frame of an invocation that loaded true is written as silence,
\* every frame of one that loaded false as tone, whatever the flag has
\* become meanwhile.
C24_FlagLoadedOncePerBuffer ==
    [][/\ (cb.at = "idle" /\ cb'.at # "idle")
            => /\ cb'.flag_at_entry = cancel_token
               /\ cb'.at = IF cancel_token THEN "silence" ELSE "tone"
       /\ (cb.at # "idle" /\ cb'.at # "idle")
            => (cb'.at = cb.at /\ cb'.flag_at_entry = cb.flag_at_entry)
       /\ FrameRendered
            => data'[cb.pos + 1] =
                 IF cb.flag_at_entry
                 THEN SilenceFrame(data[cb.pos + 1], device.channels)
                 ELSE ToneFrame(data[cb.pos + 1], device.channels,
                                Sample(f_left, sample_clock_left, device.rate),
                                Sample(f_right, sample_clock_right, device.rate))]_vars

\* the flag was set while a buffer of two frames was being filled, and the
\* buffer was filled to its end with tone that is not silence
C24_Witness ==
    /\ cancel_token
    /\ cb.at = "tone"
    /\ ~cb.flag_at_entry
    /\ cb.len = 2
    /\ cb.pos = 2
    /\ cancel_info.at >= 0
    /\ data[2][1] # Zero

----------------------------------------------------------------------------
\* the presets of preset_list()
ListedPresets == {preset_list[i] : i \in 1 .. Len(preset_list)}

\* C25: the group that BinauralPresetGroup::from makes of a preset of
\* preset_list() passes the checks: carrier - beat/2 > 0, carrier + beat/2 > 0
\* and at least one minute, so that a session started from a preset never
\* goes from Validating to Failed.
C25_PresetsPassValidation ==
    (selected \in ListedPresets /\ pc # "Idle") =>
        /\ 2 * args.carrier - args.beat > 0
        /\ 2 * args.carrier + args.beat > 0
        /\ args.minutes >= 1
        /\ pc # "Failed"
        /\ result = "none"

\* the session of the preset Sleep, the lowest carrier with an hour, is past
\* the checks
C25_Witness ==
    /\ selected = "Sleep"
    /\ preset_options = BinauralPresetGroup_from("Sleep")
    /\ args = [carrier |-> 10000, beat |-> 200, minutes |-> 60]
    /\ pc = "StreamStarting"

----------------------------------------------------------------------------
\* the flag was true already when generate_binaural_beats was called
CancelledBeforeCall == cancel_info.pc = "Idle"

\* C26: if the flag is true already at the call and the values are valid,
\* the device is opened and the stream started as ever (the flag stops
\* neither step, and nothing fails for it); every invocation of the
\* callback writes silence only, with both clocks at 0; the controller
\* leaves Playing at its first poll, for the cancellation and with no sleep,
\* and the call returns Ok.
C26_CancelledBeforeCall ==
    (CancelledBeforeCall /\ ValidationResult(args.carrier, args.beat, args.minutes) = "valid")
    => /\ (pc = "StreamStarting" /\ ~host_queried) => ENABLED OpenDevice
       /\ (pc = "StreamStarting" /\ stream = "built") => ENABLED PlayStream
       /\ result \in {"none", "Ok", "NoOutputDevice", "DeviceConfig", "BuildStream",
                       "PlayStream"}
       /\ cb.at # "tone"
       /\ tone_frames = 0
       /\ StreamExists => (sample_clock_left = 0 /\ sample_clock_right = 0)
       /\ \A i \in 1 .. cb.pos :
             IF device.channels \in {1, 2} THEN AllZero(data[i]) ELSE data[i][1] = Zero
       /\ now = 0
       /\ wait.at # "sleep"
       /\ wait.at = "returned" => wait.why = "cancelled"
       /\ pc \in {"Stopping", "Done"} => wait.at = "returned"
       /\ pc = "Done" => result = "Ok"

\* the flag was set before the call; the stream was started, the callback
\* has filled a buffer of two frames with silence, and the controller is
\* on its way out after its first poll
C26_Witness ==
    /\ CancelledBeforeCall
    /\ pc = "Stopping"
    /\ stream = "playing"
    /\ wait.why = "cancelled"
    /\ now = 0
    /\ cb.at = "silence"
    /\ cb.pos = 2
    /\ sample_clock_left = 0

----------------------------------------------------------------------------
EarFrequencyNotPositive ==
    2 * args.carrier <= args.beat \/ 2 * args.carrier <= -args.beat

BothInvalid == EarFrequencyNotPositive /\ args.minutes = 0

\* C28: when both the ear frequencies and the duration are invalid, the
\* validation step ends the call with the invalid-frequency error, and an
\* error once returned is the only one of the invocation: the result is
\* written by the validation step alone and never replaced afterwards.
C28_FrequencyErrorFirst ==
    [][ /\ (pc = "Validating" /\ pc' # pc /\ BothInvalid) =>
              (pc' = "Failed" /\ result' = "InvalidFrequency")
        /\ result' \in ValidationErrors =>
              (result' = result \/ (pc = "Validating" /\ result = "none"))
        /\ result \in ValidationErrors =>
              (result' = result /\ pc' = "Failed") ]_vars

\* carrier 1.0 Hz, beat 10.0 Hz (left -4.0 Hz), zero minutes: refused for
\* the frequencies
C28_Witness ==
    /\ BothInvalid
    /\ args.carrier = 2
    /\ args.beat = 20
    /\ pc = "Failed"
    /\ result = "InvalidFrequency"


\* the session length has been computed (or the attempt has panicked)
LengthComputed == wait.at # "none"

\* the u32 seconds are durationMinutes*60: divided by 60, high limb first,
\* they give the minute count back and leave nothing
SecondsAreExact ==
    LET rest == (wait.total[1] % 60) * 65536 + wait.total[2]
    IN  /\ rest % 60 = 0
        /\ (wait.total[1] \div 60) * 65536 + rest \div 60 = args.minutes

\* C29: the u32 product duration_minutes * 60 of wait_until_end is exact
\* for every minute count of the Duration enum (at most 3600 seconds) and
\* for every count up to 71,582,788; for a count of the generic ToMinutes
\* interface above 71,582,788 the call panics or the seconds are wrapped.
C29_SessionLengthFitsU32 ==
    LengthComputed =>
        /\ args.minutes \in {to_minutes(d) : d \in Durations} =>
              /\ wait.at = "loop"
              /\ wait.total = << 0, args.minutes * 60 >>
              /\ wait.total[2] <= 3600
        /\ args.minutes <= 71582788 => (wait.at = "loop" /\ SecondsAreExact)
        /\ args.minutes > 71582788 =>
              \/ wait.at = "panicked"
              \/ wait.at = "loop" /\ ~SecondsAreExact

\* the sixty minutes of Duration::Sixty, 3600 seconds
C29_Witness ==
    /\ args.minutes = to_minutes("SixtyMinutes")
    /\ wait.at = "loop"
    /\ wait.total = << 0, 3600 >>

\* 71,582,788 minutes are 4,294,967,280 seconds, 16 below 2^32
LastExactCount ==
    /\ args.minutes = 71582788
    /\ wait.at = "loop"
    /\ wait.total = << 65535, 65520 >>

\* 71,582,789 minutes without overflow checks: 44 seconds
FirstWrappedCount ==
    /\ args.minutes = 71582789
    /\ wait.at = "loop"
    /\ wait.total = << 0, 44 >>

\* 71,582,789 minutes with overflow checks: the panic
FirstPanic ==
    /\ args.minutes = 71582789
    /\ pc = "Panicked"


\* a device with a channel count that is neither 1 nor 2
OtherChannelCount == device.open /\ device.channels \notin {1, 2}

\* C30: on a device whose channel count is neither 1 nor 2, each frame the
\* callback renders gets its channel 0 written (the mono mix
\* (left + right) * 0.25 in a tone buffer, 0.0 in a cancelled one) and every
\* other channel of the frame, and every other frame, left as it was.
C30_OnlyFirstChannelWritten ==
    [][ (OtherChannelCount /\ cb.at \in {"tone", "silence"}
            /\ cb'.pos = cb.pos + 1) =>
          LET i == cb.pos + 1
              mix == (Sample(f_left, sample_clock_left, device.rate)
                        + Sample(f_right, sample_clock_right, device.rate)) \div 4
          IN  /\ data'[i][1] = IF cb.at = "silence" THEN Zero ELSE Val(mix)
              /\ \A c \in 2 .. device.channels : data'[i][c] = data[i][c]
              /\ \A j \in (1 .. Len(data)) \ {i} : data'[j] = data[j] ]_vars

\* a cancelled buffer of a three-channel device, rendered to its end: channel
\* 0 of every frame is 0.0, channels 1 and 2 hold what they held
C30_Witness ==
    /\ device.channels = 3
    /\ cb.at = "silence"
    /\ cb.len = MaxFrames
    /\ cb.pos = cb.len
    /\ \A i \in 1 .. Len(data) : data[i] = << Zero, Stale, Stale >>

====
